---- MODULE Spec2Model ----
(***************************************************************************)
(* A model of pyslack's SlackClient (src/pyslack/__init__.py).             *)
(*                                                                         *)
(* The client's fields are the variables.  Every public method is one      *)
(* action.  A method body is an operator over a "frame" (the client's     *)
(* fields, the clock, and the log of this invocation's _make_request       *)
(* calls); its value is the set of ways the body can end, one per answer   *)
(* the HTTP transport may give to each request it posts.                   *)
(*                                                                         *)
(* Python values: a str is a sequence of one-symbol strings, None is <<>>  *)
(* and a value that may be None is wrapped (<<v>>), a dict is a function,  *)
(* a list is a sequence.  An exception ends the body at once.              *)
(*                                                                         *)
(* The clock is read where the code reads it: when _make_request checks    *)
(* the deadline and again when a 429 has arrived, `delay` seconds later.   *)
(* Time that passes around any other response changes no decision of the   *)
(* invocation (the clock only grows), so it is left to Tick.  The          *)
(* transport answers every request with a status and, unless 429, a JSON   *)
(* object holding 'ok'; connection errors, undecodable bodies and an       *)
(* unreadable upload file are outside the model.                           *)
(***************************************************************************)
EXTENDS Integers, Sequences, FiniteSets, TLC

VARIABLES now, blocked_until, channel_name_id_map, group_name_id_map,
          user_id_name_map, returned, last

vars == <<now, blocked_until, channel_name_id_map, group_name_id_map,
          user_id_name_map, returned, last>>

\* ------------------------------------------------------------------ bounds
\* the clock's last second; the largest retry-after; the longest list the server
\* gives; the longest name asked for; the most channels of one upload
MaxTime == 2
MaxRetry == 2
MaxList == 2
MaxName == 3
MaxChannels == 2

\* ------------------------------------------------------------ Python values
None == <<>>
Some(v) == <<v>>
EmptyDict == <<>>
DictGet(d, k) == IF k \in DOMAIN d THEN Some(d[k]) ELSE None
Truthy(d) == DOMAIN d # {}

Last(S) == CHOOSE i \in S : \A j \in S : j <= i

\* {K(x): V(x) for x in items}: a later item replaces an earlier one of the same key
DictComp(items, K(_), V(_)) ==
    [k \in {K(items[i]) : i \in DOMAIN items} |->
        V(items[Last({i \in DOMAIN items : K(items[i]) = k})])]

SeqsUpTo(S, n) == UNION {[1..k -> S] : k \in 0..n}

\* str.startswith('#')
startswith_sigil(s) == Len(s) > 0 /\ s[1] = "#"

\* Python's  A and B or C  with B a str: C is taken also when B is empty
and_or(a, b, c) == IF a /\ Len(b) > 0 THEN b ELSE c

\* int(str): decimal digits only in this model's inputs; anything else raises ValueError
DigitChars == <<"0", "1", "2", "3", "4", "5", "6", "7", "8", "9">>
DigitValue(ch) == (CHOOSE i \in DOMAIN DigitChars : DigitChars[i] = ch) - 1
IsDigit(ch) == \E i \in DOMAIN DigitChars : DigitChars[i] = ch
int_ok(s) == Len(s) > 0 /\ \A i \in DOMAIN s : IsDigit(s[i])
RECURSIVE int(_)
int(s) == IF Len(s) = 0 THEN 0
          ELSE 10 * int(SubSeq(s, 1, Len(s) - 1)) + DigitValue(s[Len(s)])

RECURSIVE str(_)
str(n) == IF n < 10 THEN <<DigitChars[n + 1]>>
          ELSE str(n \div 10) \o <<DigitChars[(n % 10) + 1]>>

\* ','.join(list of str)
RECURSIVE join(_)
join(l) == IF Len(l) = 0 THEN <<>>
           ELSE IF Len(l) = 1 THEN l[1]
           ELSE l[1] \o <<",">> \o join(Tail(l))

\* ------------------------------------------------------- the HTTP transport
Token == <<"t", "o", "k">>
UserIds == {<<"U1">>, <<"U2">>}
Errors == {<<"channel_not_found">>}

\* the names asked for: any number of sigils, then nothing or a letter
Sigils(k) == [i \in 1..k |-> "#"]
Names == {Sigils(k) \o t : k \in 0..MaxName, t \in {<<>>, <<"g">>}} \ {Sigils(MaxName) \o <<"g">>}

ChannelItems ==
    {[name |-> <<"g">>, id |-> <<"C1">>],
     [name |-> <<"g">>, id |-> <<"C3">>],
     [name |-> <<>>, id |-> <<"C4">>]}
GroupItems ==
    {[name |-> <<"g">>, id |-> <<"G1">>],
     [name |-> <<>>, id |-> <<"G2">>]}
UserItems ==
    {[id |-> <<"U1">>, name |-> <<"a">>, profile |-> [real_name |-> <<"A">>]],
     [id |-> <<"U2">>, name |-> <<"b">>, profile |-> [real_name |-> <<"a">>]]}

\* seconds between a request's check of the clock and the arrival of a 429 response
Delays == {0, 1}

RetryHeaders == {Some(str(n)) : n \in 1..MaxRetry} \cup {Some(<<"x">>), None}

\* the server lists a channel or group name, or a user id, once
Listings(S, K(_)) ==
    {l \in SeqsUpTo(S, MaxList) :
        \A i, j \in DOMAIN l : K(l[i]) = K(l[j]) => i = j}

\* what the server may answer to a POST of `method`
OkBodies(method) ==
    CASE method = "channels.list" ->
            {[ok |-> TRUE, channels |-> l] : l \in Listings(ChannelItems, LAMBDA x : x.name)}
      [] method = "groups.list" ->
            {[ok |-> TRUE, groups |-> l] : l \in Listings(GroupItems, LAMBDA x : x.name)}
      [] method = "users.list" ->
            {[ok |-> TRUE, members |-> l] : l \in Listings(UserItems, LAMBDA x : x.id)}
      [] OTHER -> {[ok |-> TRUE]}

Responses(method) ==
    {[status_code |-> 429, retry_after |-> h, delay |-> d] :
        h \in RetryHeaders, d \in Delays}
    \cup {[status_code |-> 200, json |-> b, delay |-> 0] :
        b \in OkBodies(method) \cup {[ok |-> FALSE, error |-> e] : e \in Errors}}

\* ------------------------------------------------------------------ frames
Frame == [now |-> now, blocked_until |-> blocked_until,
          channel_name_id_map |-> channel_name_id_map,
          group_name_id_map |-> group_name_id_map,
          user_id_name_map |-> user_id_name_map,
          returned |-> returned,
          calls |-> <<>>]

Return(f, v) == [f |-> f, exc |-> None, val |-> v]
Raise(f, e) == [f |-> f, exc |-> Some(e), val |-> None]
Raised(o) == o.exc # None

\* run `Rest` after every normal ending in S; an exception propagates
Then(S, Rest(_)) == UNION {IF Raised(o) THEN {o} ELSE Rest(o) : o \in S}

\* `returned`: the name-to-id helpers that have returned normally at least once
Returned(f, helper) == [f EXCEPT !.returned = @ \cup {helper}]

SlackError(msg) == [type |-> "SlackError", msg |-> msg]
ValueError == [type |-> "ValueError"]
TypeError == [type |-> "TypeError"]

\* ------------------------------------------------------------ _make_request
\* lines 30-31
Blocked_inclusive(f) == f.blocked_until # None /\ f.now <= f.blocked_until[1]
Blocked(f) == f.blocked_until # None /\ f.now < f.blocked_until[1]

Logged(f, method, params, posted, resp) ==
    [f EXCEPT !.calls = Append(@, [method |-> method, params |-> params,
                                   at |-> f.now, deadline |-> f.blocked_until,
                                   posted |-> posted, response |-> resp])]

\* lines 42-43: utcnow() + timedelta(seconds=retry_after)
Backoff_fixed(t, retry_after) == Some(t + 1)
Backoff(t, retry_after) == Some(t + retry_after)

\* line 49: SlackError(result['error'])
api_error_generic(json) == [type |-> "SlackError", msg |-> <<"error">>]
api_error(json) == SlackError(json.error)

\* lines 39-50: the response has arrived, `f.now` is the time of its arrival
handle_response(f, r) ==
    IF r.status_code = 429
    THEN LET h == IF r.retry_after = None THEN <<"1">> ELSE r.retry_after[1]
         IN IF ~int_ok(h) THEN Raise(f, ValueError)
            ELSE Raise([f EXCEPT !.blocked_until = Backoff(f.now, int(h))],
                       SlackError(<<"Too many requests - retry after", int(h)>>))
    ELSE IF ~r.json.ok THEN Raise(f, api_error(r.json))
         ELSE Return(f, r.json)

make_request(f, method, params) ==
    IF Blocked(f)
    THEN {Raise(Logged(f, method, params, FALSE, None),
                SlackError(<<"Too many requests - wait until", f.blocked_until[1]>>))}
    ELSE LET p == ("token" :> Token) @@ params
         IN {handle_response(
                [Logged(f, method, p, TRUE, Some(r)) EXCEPT !.now = f.now + r.delay], r)
             : r \in Responses(method)}

\* ---------------------------------------------------------------- channels
Bool01(b) == IF b THEN 1 ELSE 0

channels_list(f, exclude_archived) ==
    make_request(f, "channels.list", "exclude_archived" :> Bool01(exclude_archived))

\* lines 72 and 101:  name.startswith('#') and name[1:] or name
RECURSIVE lstrip_sigils(_)
lstrip_sigils(name) == IF startswith_sigil(name) THEN lstrip_sigils(Tail(name)) ELSE name
StripSigil(name) == and_or(startswith_sigil(name), Tail(name), name)

NameIdMap(items) == DictComp(items, LAMBDA x : x.name, LAMBDA x : x.id)

\* lines 71, 100, 119 and 129: the map is assigned the dict built from the response
Merged(old, new) == new @@ old
Rebuilt(old, new) == new

NeedsLookup(force_lookup, map) == force_lookup \/ ~Truthy(map)

\* lines 69-71
refresh_channels(f, force_lookup) ==
    IF NeedsLookup(force_lookup, f.channel_name_id_map)
    THEN Then(channels_list(f, TRUE),
              LAMBDA o : {Return([o.f EXCEPT !.channel_name_id_map =
                                     Rebuilt(@, NameIdMap(o.val.channels))], None)})
    ELSE {Return(f, None)}

\* a lookup that refreshes once more when the name is missing
channel_name_to_id_retry(f, channel_name, force_lookup) ==
    Then(refresh_channels(f, force_lookup),
         LAMBDA o :
            IF DictGet(o.f.channel_name_id_map, StripSigil(channel_name)) = None
            THEN Then(refresh_channels(o.f, TRUE),
                      LAMBDA q : {Return(Returned(q.f, "channel_name_to_id"),
                                         DictGet(q.f.channel_name_id_map,
                                                 StripSigil(channel_name)))})
            ELSE {Return(Returned(o.f, "channel_name_to_id"),
                         DictGet(o.f.channel_name_id_map, StripSigil(channel_name)))})

channel_name_to_id(f, channel_name, force_lookup) ==
    Then(refresh_channels(f, force_lookup),
         LAMBDA o : {Return(Returned(o.f, "channel_name_to_id"),
                            DictGet(o.f.channel_name_id_map, StripSigil(channel_name)))})

channel_history(f, channel) ==
    Then(channel_name_to_id(f, channel, FALSE),
         LAMBDA o : make_request(o.f, "channels.history", "channel" :> o.val))

\* ------------------------------------------------------------------ groups
groups_list(f, exclude_archived) ==
    make_request(f, "groups.list", "exclude_archived" :> Bool01(exclude_archived))

\* lines 98-100
refresh_groups(f, force_lookup) ==
    IF NeedsLookup(force_lookup, f.group_name_id_map)
    THEN Then(groups_list(f, TRUE),
              LAMBDA o : {Return([o.f EXCEPT !.group_name_id_map =
                                     Rebuilt(@, NameIdMap(o.val.groups))], None)})
    ELSE {Return(f, None)}

group_name_to_id(f, group_name, force_lookup) ==
    Then(refresh_groups(f, force_lookup),
         LAMBDA o : {Return(Returned(o.f, "group_name_to_id"),
                            DictGet(o.f.group_name_id_map, StripSigil(group_name)))})

group_history(f, group) ==
    Then(group_name_to_id(f, group, FALSE),
         LAMBDA o : make_request(o.f, "groups.history", "channel" :> o.val))

\* ------------------------------------------------------------------- users
users_list(f) == make_request(f, "users.list", <<>>)

UserIdNameMap(items) ==
    DictComp(items, LAMBDA x : x.id,
             LAMBDA x : [name |-> x.name, realname |-> x.profile.real_name])

\* lines 117-120 and 127-130
refresh_users(f, force_lookup) ==
    IF NeedsLookup(force_lookup, f.user_id_name_map)
    THEN Then(users_list(f),
              LAMBDA o : {Return([o.f EXCEPT !.user_id_name_map =
                                     Rebuilt(@, UserIdNameMap(o.val.members))], None)})
    ELSE {Return(f, None)}

\* None['realname'] raises TypeError
Subscript(f, entry, key) ==
    IF entry = None THEN Raise(f, TypeError) ELSE Return(f, Some(entry[1][key]))

user_id_to_name(f, user_id, get_realname, force_lookup) ==
    Then(refresh_users(f, force_lookup),
         LAMBDA o : {IF get_realname
                     THEN Subscript(o.f, DictGet(o.f.user_id_name_map, user_id), "realname")
                     ELSE Subscript(o.f, DictGet(o.f.user_id_name_map, user_id), "name")})

\* the first match in the dict's iteration order, which is any order
user_name_to_id(f, user_name, force_lookup) ==
    Then(refresh_users(f, force_lookup),
         LAMBDA o :
            LET m == o.f.user_id_name_map
                hits == {id \in DOMAIN m : m[id].name = user_name \/ m[id].realname = user_name}
            IN IF hits = {} THEN {Return(o.f, None)}
               ELSE {Return(o.f, Some(id)) : id \in hits})

\* -------------------------------------------------------------------- chat
Text == <<"hi">>
Timestamp == <<"ts">>
FilePath == <<"f">>

chat_post_message(f, channel, text) ==
    make_request(f, "chat.postMessage", ("channel" :> Some(channel)) @@ ("text" :> text))

channel_is_name(channel) == startswith_sigil(channel)

chat_update_message(f, channel, text, timestamp) ==
    Then(IF channel_is_name(channel)
         THEN channel_name_to_id(f, channel, FALSE)
         ELSE {Return(f, Some(channel))},
         LAMBDA o : make_request(o.f, "chat.update",
                        ("channel" :> o.val) @@ ("text" :> text) @@ ("ts" :> timestamp)))

\* ------------------------------------------------------------- file_upload
\* lines 186-189: the loop over `channels`; its value is channel_ids.  Only the
\* branch for a name-form entry appends; the loop has no other branch.
RECURSIVE upload_loop(_, _, _)
upload_loop(f, channels, channel_ids) ==
    IF channels = <<>> THEN {Return(f, channel_ids)}
    ELSE IF channel_is_name(Head(channels))
         THEN Then(channel_name_to_id(f, Head(channels), FALSE),
                   LAMBDA o : upload_loop(o.f, Tail(channels), Append(channel_ids, o.val)))
         ELSE upload_loop(f, Tail(channels), channel_ids)

\* ','.join raises TypeError on a None item
join_ids(f, channel_ids) ==
    IF \E i \in DOMAIN channel_ids : channel_ids[i] = None
    THEN Raise(f, TypeError)
    ELSE Return(f, join([i \in DOMAIN channel_ids |-> channel_ids[i][1]]))

file_upload(f, channels, file) ==
    Then(upload_loop(f, channels, <<>>),
         LAMBDA o : Then({join_ids(o.f, o.val)},
                         LAMBDA j : make_request(j.f, "files.upload",
                                        ("channels" :> j.val) @@ ("file" :> file))))

\* ----------------------------------------------------------------- actions
Idle == [op |-> "none"]

\* the method returns or raises: the client's fields and the caller's view of the call
Finish(op, args, o) ==
    /\ o.f.now <= MaxTime
    /\ now' = o.f.now
    /\ blocked_until' = o.f.blocked_until
    /\ channel_name_id_map' = o.f.channel_name_id_map
    /\ group_name_id_map' = o.f.group_name_id_map
    /\ user_id_name_map' = o.f.user_id_name_map
    /\ returned' = o.f.returned
    /\ last' = [op |-> op, args |-> args, calls |-> o.f.calls,
                exc |-> o.exc, val |-> o.val]

Init ==
    /\ now = 0
    /\ blocked_until = None
    /\ channel_name_id_map = EmptyDict
    /\ group_name_id_map = EmptyDict
    /\ user_id_name_map = EmptyDict
    /\ returned = {}
    /\ last = Idle

\* the caller has the result and goes on
Proceed ==
    /\ last # Idle
    /\ last' = Idle
    /\ UNCHANGED <<now, blocked_until, channel_name_id_map, group_name_id_map,
                   user_id_name_map, returned>>

\* the wall clock advances between calls
Tick ==
    /\ last = Idle
    /\ now < MaxTime
    /\ now' = now + 1
    /\ UNCHANGED <<blocked_until, channel_name_id_map, group_name_id_map,
                   user_id_name_map, returned, last>>

UserNames == {<<"a">>, <<"A">>, <<"z">>}
Entries == {<<"#", "g">>, <<"C2">>}

ChannelsList ==
    /\ last = Idle
    /\ \E ea \in BOOLEAN : \E o \in channels_list(Frame, ea) :
           Finish("channels_list", [exclude_archived |-> ea], o)

ChannelNameToId ==
    /\ last = Idle
    /\ \E n \in Names, force \in BOOLEAN : \E o \in channel_name_to_id(Frame, n, force) :
           Finish("channel_name_to_id", [name |-> n, force_lookup |-> force], o)

ChannelHistory ==
    /\ last = Idle
    /\ \E n \in Entries : \E o \in channel_history(Frame, n) :
           Finish("channel_history", [name |-> n], o)

GroupsList ==
    /\ last = Idle
    /\ \E ea \in BOOLEAN : \E o \in groups_list(Frame, ea) :
           Finish("groups_list", [exclude_archived |-> ea], o)

GroupNameToId ==
    /\ last = Idle
    /\ \E n \in Names, force \in BOOLEAN : \E o \in group_name_to_id(Frame, n, force) :
           Finish("group_name_to_id", [name |-> n, force_lookup |-> force], o)

GroupHistory ==
    /\ last = Idle
    /\ \E n \in Entries : \E o \in group_history(Frame, n) :
           Finish("group_history", [name |-> n], o)

UsersList ==
    /\ last = Idle
    /\ \E o \in users_list(Frame) : Finish("users_list", <<>>, o)

UserIdToName ==
    /\ last = Idle
    /\ \E id \in UserIds, rn \in BOOLEAN, force \in BOOLEAN :
           \E o \in user_id_to_name(Frame, id, rn, force) :
               Finish("user_id_to_name",
                      [user_id |-> id, get_realname |-> rn, force_lookup |-> force], o)

UserNameToId ==
    /\ last = Idle
    /\ \E n \in UserNames, force \in BOOLEAN : \E o \in user_name_to_id(Frame, n, force) :
           Finish("user_name_to_id", [user_name |-> n, force_lookup |-> force], o)

ChatPostMessage ==
    /\ last = Idle
    /\ \E c \in Entries : \E o \in chat_post_message(Frame, c, Text) :
           Finish("chat_post_message", [channel |-> c], o)

ChatUpdateMessage ==
    /\ last = Idle
    /\ \E c \in Entries : \E o \in chat_update_message(Frame, c, Text, Timestamp) :
           Finish("chat_update_message", [channel |-> c], o)

FileUpload ==
    /\ last = Idle
    /\ \E cs \in SeqsUpTo(Entries, MaxChannels) : \E o \in file_upload(Frame, cs, FilePath) :
           Finish("file_upload", [channels |-> cs], o)

Next ==
    \/ Tick
    \/ Proceed
    \/ ChannelsList
    \/ ChannelNameToId
    \/ ChannelHistory
    \/ GroupsList
    \/ GroupNameToId
    \/ GroupHistory
    \/ UsersList
    \/ UserIdToName
    \/ UserNameToId
    \/ ChatPostMessage
    \/ ChatUpdateMessage
    \/ FileUpload

Spec == Init /\ [][Next]_vars

\* ------------------------------------------------- reading an invocation
CallsOf(l) == IF l.op = "none" THEN <<>> ELSE l.calls
WasBlocked(c) == c.deadline # None /\ c.at < c.deadline[1]
Is429(c) == c.posted /\ c.response[1].status_code = 429
IsOk(c) == c.posted /\ c.response[1].status_code = 200 /\ c.response[1].json.ok
IsApiFailure(c) == c.posted /\ c.response[1].status_code = 200 /\ ~c.response[1].json.ok
Posts(l) == {i \in DOMAIN CallsOf(l) : CallsOf(l)[i].posted}
PostsOf(l, method) == {i \in Posts(l) : CallsOf(l)[i].method = method}
WaitUntil(t) == SlackError(<<"Too many requests - wait until", t>>)
RetryAfter(n) == SlackError(<<"Too many requests - retry after", n>>)
\* the last _make_request call of the invocation answered 429
Ended429(l) == CallsOf(l) # <<>> /\ Is429(CallsOf(l)[Len(CallsOf(l))])
Header(l) == CallsOf(l)[Len(CallsOf(l))].response[1].retry_after
StartsBlocked == blocked_until # None /\ now < blocked_until[1]

\* C1: every _make_request call made while a deadline is stored and the clock is
\* strictly before it raises the rate-limited SlackError carrying the deadline
\* and posts nothing; every other call posts exactly once, with the token in
\* the parameters.
C1_Dispatch ==
    \A i \in DOMAIN CallsOf(last) :
        LET c == CallsOf(last)[i]
        IN IF WasBlocked(c)
           THEN /\ ~c.posted
                /\ c.response = None
                /\ i = Len(CallsOf(last))
                /\ last.exc = Some(WaitUntil(c.deadline[1]))
           ELSE /\ c.posted
                /\ c.response # None
                /\ "token" \in DOMAIN c.params
                /\ c.params["token"] = Token

\* a call short-circuited one second before its deadline, and nothing was posted
C1_Witness ==
    /\ CallsOf(last) # <<>>
    /\ Posts(last) = {}
    /\ last.calls[1].deadline = Some(last.calls[1].at + 1)
    /\ last.exc = Some(WaitUntil(last.calls[1].at + 1))

\* C2 (as claimed): a 429 with retry-after N sets blocked_until to the time of
\* the response plus N and raises the rate-limited error; every following call
\* of any client operation before the deadline short-circuits with the
\* rate-limited error and no network call; only a 429 changes blocked_until.
C2_Original ==
    [][/\ (Ended429(last') /\ Header(last') # None /\ int_ok(Header(last')[1]))
            => /\ blocked_until' = Some(now' + int(Header(last')[1]))
               /\ last'.exc = Some(RetryAfter(int(Header(last')[1])))
       /\ (last'.op # "none" /\ StartsBlocked)
            => /\ last'.exc = Some(WaitUntil(blocked_until[1]))
               /\ Posts(last') = {}
       /\ (blocked_until' # blocked_until) => Ended429(last')]_vars

\* C2 (amended): as claimed, but the short-circuit is that of _make_request: an
\* operation started before the deadline that calls _make_request makes one
\* call, which raises the rate-limited error carrying the deadline and posts
\* nothing; an operation that never calls _make_request is not stopped.
C2_Backoff ==
    [][/\ (Ended429(last') /\ Header(last') # None /\ int_ok(Header(last')[1]))
            => /\ blocked_until' = Some(now' + int(Header(last')[1]))
               /\ last'.exc = Some(RetryAfter(int(Header(last')[1])))
       /\ (last'.op # "none" /\ StartsBlocked /\ CallsOf(last') # <<>>)
            => /\ last'.exc = Some(WaitUntil(blocked_until[1]))
               /\ Posts(last') = {}
               /\ Len(CallsOf(last')) = 1
       /\ (last'.op # "none" /\ StartsBlocked /\ CallsOf(last') = <<>>)
            => last'.exc \in {None, Some(TypeError)}
       /\ (blocked_until' # blocked_until) => Ended429(last')]_vars

\* a 429 with retry-after: 2 arrived one second after the request was checked
C2_Witness ==
    /\ Ended429(last)
    /\ Header(last) = Some(<<"2">>)
    /\ last.calls[Len(last.calls)].response[1].delay = 1
    /\ now = last.calls[Len(last.calls)].at + 1
    /\ blocked_until = Some(now + 2)

\* C3: a 429 whose retry-after header is absent or is not an integer backs off
\* exactly 1 second: blocked_until is the time of the response plus 1 and the
\* call fails with the rate-limited SlackError.
C3_DefaultBackoff ==
    (Ended429(last) /\ (Header(last) = None \/ ~int_ok(Header(last)[1])))
        => /\ blocked_until = Some(now + 1)
           /\ last.exc = Some(RetryAfter(1))

\* C4: once channel_name_to_id (group_name_to_id) has returned, whatever list the
\* server gave, a later call of it with force_lookup=false posts no list
\* request: only a call with force_lookup=true makes a new one.
C4_CacheHit ==
    [][\A h \in {"channel_name_to_id", "group_name_to_id"} :
          (last'.op = h /\ ~last'.args.force_lookup /\ h \in returned)
              => Posts(last') = {}]_vars

\* ---------------------------------------------------------------- snapshots
OkLists(l, method) == {i \in PostsOf(l, method) : IsOk(CallsOf(l)[i])}
LastOkList(l, method) == CallsOf(l)[Last(OkLists(l, method))].response[1].json
ChannelRefreshers ==
    {"channel_name_to_id", "channel_history", "chat_update_message", "file_upload"}
GroupRefreshers == {"group_name_to_id", "group_history"}
UserRefreshers == {"user_id_to_name", "user_name_to_id"}

\* C5: every step leaves each cache as it was, or makes it exactly the mapping
\* built from the last list response the invocation used to refresh it (nothing
\* of the old mapping survives); an invocation whose list call failed, and any
\* other operation, leaves the cache as it was.  All three start empty.
C5_Snapshot ==
    [][/\ IF last'.op \in ChannelRefreshers /\ OkLists(last', "channels.list") # {}
          THEN channel_name_id_map' = NameIdMap(LastOkList(last', "channels.list").channels)
          ELSE channel_name_id_map' = channel_name_id_map
       /\ IF last'.op \in GroupRefreshers /\ OkLists(last', "groups.list") # {}
          THEN group_name_id_map' = NameIdMap(LastOkList(last', "groups.list").groups)
          ELSE group_name_id_map' = group_name_id_map
       /\ IF last'.op \in UserRefreshers /\ OkLists(last', "users.list") # {}
          THEN user_id_name_map' = UserIdNameMap(LastOkList(last', "users.list").members)
          ELSE user_id_name_map' = user_id_name_map]_vars

\* a forced refresh has left exactly the one channel of the new response, and
\* 'g' is not found in it
C5_Witness ==
    /\ last.op = "channel_name_to_id"
    /\ last.args.force_lookup
    /\ last.args.name = <<"g">>
    /\ last.val = None
    /\ OkLists(last, "channels.list") # {}
    /\ DOMAIN channel_name_id_map = {<<>>}

\* C6: user_id_to_name, once any refresh has succeeded, returns a not-found
\* outcome without crashing for an id that is not in the cache, and for an id in
\* the cache the display name (get_realname) or the short handle.
C6_UserIdToName ==
    (last.op = "user_id_to_name" /\ \A i \in DOMAIN last.calls : IsOk(last.calls[i]))
        => /\ last.exc = None
           /\ IF last.args.user_id \in DOMAIN user_id_name_map
              THEN last.val = Some(IF last.args.get_realname
                                   THEN user_id_name_map[last.args.user_id].realname
                                   ELSE user_id_name_map[last.args.user_id].name)
              ELSE last.val = None

\* ------------------------------------------------------------------- sigils
\* what a call of the helper with force_lookup=false may do in the present state
ChannelAnswers(n) ==
    {<<o.f.calls, o.exc, o.val>> : o \in channel_name_to_id(Frame, n, FALSE)}
GroupAnswers(n) ==
    {<<o.f.calls, o.exc, o.val>> : o \in group_name_to_id(Frame, n, FALSE)}
Sigil(n) == <<"#">> \o n
\* the name with one leading '#' removed, the bare '#' kept as it is
KeyOf(n) == IF n # <<"#">> /\ n # <<>> /\ n[1] = "#" THEN Tail(n) ELSE n

\* C7 (as claimed): for every name n, the empty name and names starting with
\* '#' included, '#' + n resolves as n does, for channels and for groups (here
\* in the states where the cache answers without a request).
C7_Original ==
    last = Idle =>
        \A n \in Names :
            Sigil(n) \in Names =>
                /\ Truthy(channel_name_id_map)
                        => ChannelAnswers(Sigil(n)) = ChannelAnswers(n)
                /\ Truthy(group_name_id_map)
                        => GroupAnswers(Sigil(n)) = GroupAnswers(n)

\* C7 (amended): the helpers look up the name with exactly one leading '#'
\* removed, except that the bare name '#' is looked up as '#'; so '#' + n
\* resolves as n does for every non-empty n that does not start with '#'.
C7_Sigil ==
    /\ (last.op = "channel_name_to_id" /\ last.exc = None)
            => last.val = DictGet(channel_name_id_map, KeyOf(last.args.name))
    /\ (last.op = "group_name_to_id" /\ last.exc = None)
            => last.val = DictGet(group_name_id_map, KeyOf(last.args.name))
    /\ last = Idle =>
            \A n \in Names :
                (n # <<>> /\ n[1] # "#" /\ Sigil(n) \in Names) =>
                    /\ ChannelAnswers(Sigil(n)) = ChannelAnswers(n)
                    /\ GroupAnswers(Sigil(n)) = GroupAnswers(n)

\* '#g' was asked for and the id cached under 'g' came back, with no request
C7_Witness ==
    /\ last.op = "channel_name_to_id"
    /\ last.args.name = <<"#", "g">>
    /\ last.calls = <<>>
    /\ <<"g">> \in DOMAIN channel_name_id_map
    /\ last.val = Some(channel_name_id_map[<<"g">>])

\* ------------------------------------------------------------------- upload
\* one item per entry: the cached id of a name-form entry, an id-form entry as it is
ClaimedItem(e) ==
    IF channel_is_name(e) /\ Tail(e) \in DOMAIN channel_name_id_map
    THEN channel_name_id_map[Tail(e)]
    ELSE e
ClaimedChannels(cs) == join([i \in DOMAIN cs |-> ClaimedItem(cs[i])])

FinalCall(l) == CallsOf(l)[Len(CallsOf(l))]
EndedApiFailure(l) == CallsOf(l) # <<>> /\ IsApiFailure(FinalCall(l))
EndedOk(l) == CallsOf(l) # <<>> /\ IsOk(FinalCall(l))
\* the operations that end with  return self._make_request(method, ...)
MethodOf(op) ==
    CASE op = "channels_list" -> "channels.list"
      [] op = "groups_list" -> "groups.list"
      [] op = "users_list" -> "users.list"
      [] op = "channel_history" -> "channels.history"
      [] op = "group_history" -> "groups.history"
      [] op = "chat_post_message" -> "chat.postMessage"
      [] op = "chat_update_message" -> "chat.update"
      [] op = "file_upload" -> "files.upload"
      [] OTHER -> "none"
\* the operation's own request was answered ok
Dispatched(l) == EndedOk(l) /\ FinalCall(l).method = MethodOf(l.op)
\* the list requests answered ok before the invocation's last call
EarlierOkLists(l, method) == {i \in OkLists(l, method) : i < Len(CallsOf(l))}

\* C9 (as claimed): when a request is answered ok=false with error e, the
\* operation raises SlackError(e), returns nothing and leaves the deadline and
\* the three caches unchanged; when ok is true _make_request returns the decoded
\* mapping.
C9_Original ==
    [][/\ EndedApiFailure(last')
            => /\ last'.exc = Some(SlackError(FinalCall(last').response[1].json.error))
               /\ last'.val = None
               /\ blocked_until' = blocked_until
               /\ channel_name_id_map' = channel_name_id_map
               /\ group_name_id_map' = group_name_id_map
               /\ user_id_name_map' = user_id_name_map
       /\ Dispatched(last')
            => /\ last'.exc = None
               /\ last'.val = FinalCall(last').response[1].json]_vars

\* C9 (amended): as claimed, except that the caches are left as they were when
\* the failing request was posted: a channel or group cache refreshed by an
\* earlier list request of the same invocation keeps that refresh.  When the
\* failing request is the invocation's first, all three caches are unchanged.
C9_ApiError ==
    [][/\ EndedApiFailure(last')
            => /\ last'.exc = Some(SlackError(FinalCall(last').response[1].json.error))
               /\ last'.val = None
               /\ blocked_until' = blocked_until
               /\ IF EarlierOkLists(last', "channels.list") # {}
                  THEN channel_name_id_map' =
                           NameIdMap(LastOkList(last', "channels.list").channels)
                  ELSE channel_name_id_map' = channel_name_id_map
               /\ IF EarlierOkLists(last', "groups.list") # {}
                  THEN group_name_id_map' =
                           NameIdMap(LastOkList(last', "groups.list").groups)
                  ELSE group_name_id_map' = group_name_id_map
               /\ user_id_name_map' = user_id_name_map
       /\ Dispatched(last')
            => /\ last'.exc = None
               /\ last'.val = FinalCall(last').response[1].json]_vars

\* channel_history refreshed the cache, then its history request was answered
\* ok=false and the error code came out as the SlackError's message
C9_Witness ==
    /\ last.op = "channel_history"
    /\ Len(last.calls) = 2
    /\ EndedApiFailure(last)
    /\ last.exc = Some(SlackError(<<"channel_not_found">>))
    /\ Truthy(channel_name_id_map)

\* -------------------------------------------------------------- round trips
\* no request follows a _make_request call that failed
NoRetry(l) == \A i \in DOMAIN CallsOf(l) : i < Len(CallsOf(l)) => IsOk(CallsOf(l)[i])
NameForm(cs) == {i \in DOMAIN cs : channel_is_name(cs[i])}
SingleRequest ==
    {"channels_list", "groups_list", "users_list", "channel_name_to_id", "group_name_to_id",
     "user_id_to_name", "user_name_to_id", "chat_post_message"}
LookupThenRequest == {"channel_history", "group_history", "chat_update_message"}
ListOf(op) == IF op = "group_history" THEN "groups.list" ELSE "channels.list"

\* C10 (as claimed): every public operation posts at most one request per
\* invocation, and no request follows a failed one.
C10_Original ==
    last.op # "none" => (Cardinality(Posts(last)) <= 1 /\ NoRetry(last))

\* C10 (amended): the list operations, the four lookups and chat_post_message
\* post at most one request; channel_history, group_history and
\* chat_update_message at most two, a list request then their own;
\* file_upload at most one channels.list per name-form entry and one
\* files.upload; and in every operation no request follows a failed one.
C10_RoundTrips ==
    /\ last.op # "none" => NoRetry(last)
    /\ last.op \in SingleRequest => Cardinality(Posts(last)) <= 1
    /\ last.op \in LookupThenRequest
            => /\ Cardinality(Posts(last)) <= 2
               /\ Cardinality(PostsOf(last, ListOf(last.op))) <= 1
    /\ last.op = "file_upload"
            => /\ Cardinality(PostsOf(last, "channels.list"))
                      <= Cardinality(NameForm(last.args.channels))
               /\ Cardinality(PostsOf(last, "files.upload")) <= 1
               /\ Posts(last) = PostsOf(last, "channels.list")
                                    \cup PostsOf(last, "files.upload")

\* channel_history made two round trips: channels.list, then channels.history
C10_Witness ==
    /\ last.op = "channel_history"
    /\ Cardinality(Posts(last)) = 2
    /\ last.calls[1].method = "channels.list"
    /\ last.calls[2].method = "channels.history"
    /\ last.exc = None
====
